---- MODULE Spec2Model ----
(***************************************************************************)
(* The R-tree spatial index of src/rtree/rtree.py and the range query of   *)
(* src/05-nested-loop/implementation.py.                                   *)
(*                                                                         *)
(* The tree is an arena: nodes[i] is the Node object with identity i, its  *)
(* children a list of Point values and Node references, its parent a Node  *)
(* identity or None, its mbr an optional box (a sequence of length 0 or    *)
(* 1).  Every public operation is one action that runs the whole call.     *)
(***************************************************************************)
EXTENDS Integers, Sequences, FiniteSets, TLC

VARIABLES
    node_capacity,  \* RTree.node_capacity
    root,           \* RTree.root, a Node identity
    nodes,          \* the Node objects reachable from the index
    raised,         \* TRUE iff the last call ended with an exception
    last            \* the last call: its name, its argument list, the multiset
                    \* all_points() was before it, how many entities it
                    \* queued for reinsertion, and whether it is in a loop
                    \* that never ends

vars == <<node_capacity, root, nodes, raised, last>>

(***************************************************************************)
(* Bounds of the model.                                                    *)
(***************************************************************************)
MaxPointsSmall == 4    \* entities held at once when node_capacity < 4
MaxPointsLarge == 11   \* entities held at once when node_capacity >= 4
MaxBulkAny == 1        \* bulk_load takes every list up to this length
MaxBulkLen == 7        \* and two-entity alternating lists up to this length
MaxBulkPrior == 1      \* bulk_load is called on an index holding at most this
RecursionLimit == 6    \* depth at which a nested == gives up (RecursionError)

Capacities == {2, 3, 4}

(***************************************************************************)
(* Values.                                                                 *)
(***************************************************************************)
None == 0
Inf == 1000

Max(a, b) == IF a >= b THEN a ELSE b
Min(a, b) == IF a <= b THEN a ELSE b
SetMin(S) == CHOOSE x \in S : \A y \in S : x <= y
SetMax(S) == CHOOSE x \in S : \A y \in S : x >= y
Range(s) == {s[i] : i \in DOMAIN s}

RECURSIVE Flatten(_)
Flatten(ss) == IF ss = <<>> THEN <<>> ELSE Head(ss) \o Flatten(Tail(ss))

\* A child of a node is a Point value or a reference to a Node object.
Point(x, y, radius) == [tag |-> "Point", x |-> x, y |-> y, radius |-> radius, ref |-> 0]
NodeRef(i) == [tag |-> "Node", x |-> 0, y |-> 0, radius |-> 0, ref |-> i]

MinimalBoundingRectangle(x1, y1, x2, y2) == [x1 |-> x1, y1 |-> y1, x2 |-> x2, y2 |-> y2]

\* Point.mbr, set in Point.__init__
PointMbr(p) ==
    MinimalBoundingRectangle(p.x - p.radius, p.y - p.radius, p.x + p.radius, p.y + p.radius)

includes(m, point) ==
    /\ m.x1 <= point.x - point.radius
    /\ point.x + point.radius <= m.x2
    /\ m.y1 <= point.y - point.radius
    /\ point.y + point.radius <= m.y2

area(m) == Max(0, m.x2 - m.x1) * Max(0, m.y2 - m.y1)

enlarged_area_with_point(m, point) ==
    LET nx1 == Min(m.x1, point.x - point.radius)
        ny1 == Min(m.y1, point.y - point.radius)
        nx2 == Max(m.x2, point.x + point.radius)
        ny2 == Max(m.y2, point.y + point.radius)
    IN Max(0, nx2 - nx1) * Max(0, ny2 - ny1)

\* mutant: boxes that only touch count as intersecting
intersects_touching(a, b) ==
    ~(a.x2 < b.x1 \/ b.x2 < a.x1 \/ a.y2 < b.y1 \/ b.y2 < a.y1)

intersects(a, b) ==
    ~(a.x2 <= b.x1 \/ b.x2 <= a.x1 \/ a.y2 <= b.y1 \/ b.y2 <= a.y1)

(***************************************************************************)
(* Node.  T is the index during a call: [nodes, root, cap, err, requeued,  *)
(* loops], cap the node_capacity, err set by a raised exception, after     *)
(* which the call does nothing more, requeued the number of entities the   *)
(* call has put on _condense_tree's insert_queue, and loops set when the   *)
(* call has entered a loop it never leaves.                                *)
(***************************************************************************)
NewNode(children, parent) == [children |-> children, parent |-> parent, mbr |-> <<>>]

\* Node(children=..., parent=...): the new object gets the next identity
AddNode(T, children, parent) == [T EXCEPT !.nodes = Append(@, NewNode(children, parent))]
NewId(T) == Len(T.nodes) + 1

\* mutant: a node counts as a leaf as soon as it has children
is_leaf_nonempty(T, n) == Len(T.nodes[n].children) # 0

is_leaf(T, n) ==
    LET c == T.nodes[n].children IN Len(c) # 0 /\ c[1].tag = "Point"

\* child.mbr
ChildMbr(T, c) == IF c.tag = "Point" THEN <<PointMbr(c)>> ELSE T.nodes[c.ref].mbr

\* mutant: the union stops at one child instead of accumulating over all
UnionBoxOfOne(boxes) ==
    IF boxes = {} THEN MinimalBoundingRectangle(Inf, Inf, -Inf, -Inf)
    ELSE CHOOSE b \in boxes : \A c \in boxes : b.x1 <= c.x1

UnionBox(boxes) ==
    MinimalBoundingRectangle(
        SetMin({Inf} \cup {b.x1 : b \in boxes}), SetMin({Inf} \cup {b.y1 : b \in boxes}),
        SetMax({-Inf} \cup {b.x2 : b \in boxes}), SetMax({-Inf} \cup {b.y2 : b \in boxes}))

RECURSIVE update_mbr(_, _)
update_mbr(T, n) ==
    LET self == T.nodes[n]
        kids == self.children
        boxes == [i \in DOMAIN kids |-> ChildMbr(T, kids[i])]
        \* leaf branch: point_mbr.x1 of a child whose mbr is None
        leafFails == \E i \in DOMAIN kids : boxes[i] = <<>>
        \* internal branch: "Non-leaf node has a Point child"
        innerFails == \E i \in DOMAIN kids : kids[i].tag = "Point"
        fails == kids # <<>> /\ (IF is_leaf(T, n) THEN leafFails ELSE innerFails)
        present == {boxes[i][1] : i \in {j \in DOMAIN kids : boxes[j] # <<>>}}
        newmbr == IF kids = <<>> THEN <<>> ELSE <<UnionBox(present)>>
        T1 == [T EXCEPT !.nodes[n].mbr = newmbr]
    IN IF T.err THEN T
       ELSE IF fails THEN [T EXCEPT !.err = TRUE]
       ELSE IF self.parent # None THEN update_mbr(T1, self.parent)
       ELSE T1

RECURSIVE all_points(_, _)
all_points(T, n) ==
    LET kids == T.nodes[n].children
    IN Flatten([i \in DOMAIN kids |->
                  IF kids[i].tag = "Point" THEN <<kids[i]>> ELSE all_points(T, kids[i].ref)])

\* list.sort(key=...): stable, so an element's place is its rank by (key, index)
Rank(keys, i) ==
    1 + Cardinality({j \in DOMAIN keys : keys[j] < keys[i] \/ (keys[j] = keys[i] /\ j < i)})
SortByKeys(seq, keys) ==
    [r \in 1..Len(seq) |-> seq[CHOOSE i \in 1..Len(seq) : Rank(keys, i) = r]]

\* mutant: the slice takes one element more, seq[lo:hi + 1]
SliceOneMore(seq, lo, hi) == SubSeq(seq, Min(lo, Len(seq)) + 1, Min(hi + 1, Len(seq)))

\* seq[lo:hi] of Python, 0-based and clamped to the list
Slice(seq, lo, hi) == SubSeq(seq, Min(lo, Len(seq)) + 1, Min(hi, Len(seq)))

(***************************************************************************)
(* RTree.bulk_load                                                         *)
(***************************************************************************)
\* math.ceil(a / b) for a >= 0 and b # 0
CeilDiv(a, b) == IF b > 0 THEN (a + b - 1) \div b ELSE 0 - (a \div (0 - b))
CeilSqrt(n) == CHOOSE k \in 0..n : k * k >= n /\ \A j \in 0..(k - 1) : j * j < n

\* the children lists of the leaves, in the order the leaves are created
LeafChunks(points, C) ==
    LET sorted == SortByKeys(points, [i \in DOMAIN points |-> points[i].x])
        N == Len(points)
        number_of_leafs == CeilDiv(N, C)
        num_slices == CeilSqrt(number_of_leafs)
        slice_size == (N + num_slices - 1) \div num_slices
        slices == [i \in 1..num_slices |-> Slice(sorted, (i - 1) * slice_size, i * slice_size)]
        chunksOf(sl) ==
            LET s == SortByKeys(sl, [i \in DOMAIN sl |-> sl[i].y])
            IN [k \in 1..CeilDiv(Len(s), C) |-> Slice(s, (k - 1) * C, k * C)]
    IN Flatten([i \in 1..num_slices |-> chunksOf(slices[i])])

RECURSIVE MakeLeaves(_, _, _)
MakeLeaves(T, chunks, i) ==
    IF i > Len(chunks) THEN T
    ELSE MakeLeaves(update_mbr(AddNode(T, chunks[i], None), NewId(T)), chunks, i + 1)

\* the loop over children_sizes: one new node per size, over current_nodes[index:index+size]
RECURSIVE MakeParents(_, _, _, _, _)
MakeParents(T, current_nodes, children_sizes, i, index) ==
    IF i > Len(children_sizes) THEN T
    ELSE
        LET new_node == NewId(T)
            group == Slice(current_nodes, index, index + children_sizes[i])
            T1 == AddNode(T, [k \in DOMAIN group |-> NodeRef(group[k])], None)
            T2 == [T1 EXCEPT !.nodes = [n \in DOMAIN @ |->
                        IF n \in Range(group) THEN [@[n] EXCEPT !.parent = new_node] ELSE @[n]]]
        IN MakeParents(update_mbr(T2, new_node), current_nodes, children_sizes, i + 1,
                       index + children_sizes[i])

RECURSIVE BuildLevels(_, _)
BuildLevels(T, current_nodes) ==
    IF Len(current_nodes) = 1 THEN [T EXCEPT !.root = current_nodes[1]]
    \* a pass that makes as many new nodes as it was given leaves the loop
    \* where it was: len(current_nodes) != 1 holds in every pass to come
    ELSE IF CeilDiv(Len(current_nodes), T.cap) = Len(current_nodes) THEN [T EXCEPT !.loops = TRUE]
    ELSE
        LET number_of_new_nodes == CeilDiv(Len(current_nodes), T.cap)
            total == Len(current_nodes)
            base == total \div number_of_new_nodes
            rem == total % number_of_new_nodes
            children_sizes == [i \in 1..number_of_new_nodes |-> base + (IF i - 1 < rem THEN 1 ELSE 0)]
            new_nodes == [i \in 1..number_of_new_nodes |-> Len(T.nodes) + i]
        IN BuildLevels(MakeParents(T, current_nodes, children_sizes, 1, 0), new_nodes)

bulk_load(T, points) ==
    IF points = <<>> THEN T
    \* len(points) / self.node_capacity: ZeroDivisionError
    ELSE IF T.cap = 0 THEN [T EXCEPT !.err = TRUE]
    \* math.ceil of the complex number_of_leafs ** 0.5: TypeError
    ELSE IF CeilDiv(Len(points), T.cap) < 0 THEN [T EXCEPT !.err = TRUE]
    \* (len(points) + num_slices - 1) // num_slices: ZeroDivisionError
    ELSE IF CeilDiv(Len(points), T.cap) = 0 THEN [T EXCEPT !.err = TRUE]
    ELSE
        LET chunks == LeafChunks(points, T.cap)
            leaf_nodes == [k \in 1..Len(chunks) |-> Len(T.nodes) + k]
        IN BuildLevels(MakeLeaves(T, chunks, 1), leaf_nodes)

(***************************************************************************)
(* RTree.insert                                                            *)
(***************************************************************************)
\* the for loop of _choose_leaf over current_node.children[i..]: <<chosen, best_increase>>,
\* chosen the index of the chosen child or None
RECURSIVE ScanChildren(_, _, _, _, _, _)
ScanChildren(T, kids, i, point, chosen, best_increase) ==
    IF i > Len(kids) THEN <<chosen, best_increase>>
    ELSE
        LET node_mbr == IF kids[i].tag = "Node" THEN T.nodes[kids[i].ref].mbr ELSE <<>>
            increase ==
                IF node_mbr # <<>>
                THEN enlarged_area_with_point(node_mbr[1], point) - area(node_mbr[1])
                ELSE Inf
        IN IF node_mbr # <<>> /\ includes(node_mbr[1], point)
           THEN ScanChildren(T, kids, i + 1, point, i, 0)
           ELSE IF increase < best_increase
                THEN ScanChildren(T, kids, i + 1, point, i, increase)
                ELSE ScanChildren(T, kids, i + 1, point, chosen, best_increase)

\* the while loop of _choose_leaf from current_node: [node, err]
RECURSIVE Descend(_, _, _)
Descend(T, current_node, point) ==
    LET kids == T.nodes[current_node].children
        chosen == ScanChildren(T, kids, 1, point, None, Inf)[1]
    IN IF is_leaf(T, current_node) \/ Len(kids) = 0
       THEN [node |-> current_node, err |-> FALSE]
       \* the assert, or a chosen Point that has no is_leaf
       ELSE IF chosen = None \/ kids[chosen].tag = "Point"
            THEN [node |-> current_node, err |-> TRUE]
            ELSE Descend(T, kids[chosen].ref, point)

choose_leaf(T, point) == Descend(T, T.root, point)

\* the sort key of _split_node
SplitKey(T, child) ==
    IF child.tag = "Point" THEN child.x
    ELSE IF T.nodes[child.ref].mbr # <<>> THEN T.nodes[child.ref].mbr[1].x1 ELSE Inf

\* mutant: orig[half + 1:], the cut skips the middle child
RightHalfSkipsOne(orig, half) == SubSeq(orig, half + 2, Len(orig))

\* mutant: the node keeps all its children, orig[:]
LeftHalfKeepsAll(orig, half) == orig

LeftHalf(orig, half) == SubSeq(orig, 1, half)         \* orig[:half]
RightHalf(orig, half) == SubSeq(orig, half + 1, Len(orig))   \* orig[half:]

\* the new sibling is NewId(T), the identity the call creates
split_node(T, node) ==
    LET self == T.nodes[node]
        orig == SortByKeys(self.children, [i \in DOMAIN self.children |-> SplitKey(T, self.children[i])])
        half == Len(orig) \div 2
        left == LeftHalf(orig, half)
        right == RightHalf(orig, half)
        new_node == NewId(T)
        T1 == AddNode([T EXCEPT !.nodes[node].children = left], right, self.parent)
        refs(cs) == {cs[i].ref : i \in {j \in DOMAIN cs : cs[j].tag = "Node"}}
        T2 == [T1 EXCEPT !.nodes = [n \in DOMAIN @ |->
                    IF n \in refs(right) THEN [@[n] EXCEPT !.parent = new_node]
                    ELSE IF n \in refs(left) THEN [@[n] EXCEPT !.parent = node]
                    ELSE @[n]]]
    IN update_mbr(update_mbr(T2, node), new_node)

\* mutant: the test is off by one
OverfullLate(T, current) == Len(T.nodes[current].children) > T.cap + 1

\* the test of _adjust_tree
Overfull(T, current) == Len(T.nodes[current].children) > T.cap

RECURSIVE adjust_tree(_, _)
adjust_tree(T, current) ==
    LET \* T2 the index after self._split_node(current)
        Split(T1, T2) ==
            LET new_node == NewId(T1)
                parent == T2.nodes[current].parent
                new_root == NewId(T2)
            IN IF T2.err THEN T2
               ELSE IF parent = None
               THEN adjust_tree(
                        update_mbr(
                            [AddNode(T2, <<NodeRef(current), NodeRef(new_node)>>, None)
                                EXCEPT !.nodes[current].parent = new_root,
                                       !.nodes[new_node].parent = new_root,
                                       !.root = new_root],
                            new_root),
                        new_root)
               ELSE adjust_tree(
                        [T2 EXCEPT !.nodes[parent].children = Append(@, NodeRef(new_node)),
                                   !.nodes[new_node].parent = parent],
                        parent)
        \* T1 the index after current.update_mbr()
        Updated(T1) ==
            IF T1.err THEN T1
            ELSE IF Overfull(T1, current) THEN Split(T1, split_node(T1, current))
            ELSE adjust_tree(T1, T1.nodes[current].parent)
    IN IF current = None \/ T.err THEN T ELSE Updated(update_mbr(T, current))

insert(T, point) ==
    LET \* found what self._choose_leaf(point) gives
        Chosen(found) ==
            LET leaf == found.node
            IN IF found.err THEN [T EXCEPT !.err = TRUE]
               ELSE adjust_tree(
                        update_mbr([T EXCEPT !.nodes[leaf].children = Append(@, point)], leaf),
                        leaf)
    IN IF T.err THEN T ELSE Chosen(choose_leaf(T, point))

(***************************************************************************)
(* RTree.delete                                                            *)
(***************************************************************************)
RECURSIVE find_leaf(_, _, _)
RECURSIVE FindInChildren(_, _, _, _)
find_leaf(T, node, point) ==
    LET kids == T.nodes[node].children
    IN IF Len(kids) = 0 THEN None
       ELSE IF is_leaf(T, node)
            THEN (IF \E i \in DOMAIN kids : kids[i] = point THEN node ELSE None)
            ELSE FindInChildren(T, kids, 1, point)

\* the for loop of _find_leaf over node.children[i..]
FindInChildren(T, kids, i, point) ==
    IF i > Len(kids) THEN None
    ELSE
        LET child == kids[i]
            child_mbr == IF child.tag = "Node" THEN T.nodes[child.ref].mbr ELSE <<>>
            result ==
                IF child_mbr # <<>> /\ intersects(child_mbr[1], PointMbr(point))
                THEN find_leaf(T, child.ref, point)
                ELSE None
        IN IF result # None THEN result ELSE FindInChildren(T, kids, i + 1, point)

RemoveAt(seq, i) == SubSeq(seq, 1, i - 1) \o SubSeq(seq, i + 1, Len(seq))

\* Node.__eq__ as @dataclass generates it, between two distinct objects: the
\* fields compared in order (children, parent, mbr), each pair by identity first.
\* "eq", "ne", or "RecursionError" when the comparison nests too deep.
RECURSIVE NodeEq(_, _, _, _)
RECURSIVE ChildrenEq(_, _, _, _, _)
NodeEq(T, a, b, depth) ==
    LET A == T.nodes[a]
        B == T.nodes[b]
        kidsCmp == IF Len(A.children) # Len(B.children) THEN "ne"
                   ELSE ChildrenEq(T, A.children, B.children, 1, depth)
        parCmp == IF A.parent = B.parent THEN "eq"
                  ELSE IF A.parent = None \/ B.parent = None THEN "ne"
                  ELSE NodeEq(T, A.parent, B.parent, depth - 1)
        mbrCmp == IF A.mbr = B.mbr THEN "eq" ELSE "ne"
    IN IF depth = 0 THEN "RecursionError"
       ELSE IF kidsCmp # "eq" THEN kidsCmp
       ELSE IF parCmp # "eq" THEN parCmp
       ELSE mbrCmp

ChildrenEq(T, xs, ys, i, depth) ==
    IF i > Len(xs) THEN "eq"
    ELSE
        LET one == IF xs[i] = ys[i] THEN "eq"
                   ELSE IF xs[i].tag = "Node" /\ ys[i].tag = "Node"
                        THEN NodeEq(T, xs[i].ref, ys[i].ref, depth - 1)
                        ELSE "ne"
        IN IF one # "eq" THEN one ELSE ChildrenEq(T, xs, ys, i + 1, depth)

\* list.remove(node): the index of the first child of kids[i..] that is node or
\* equals it; None for ValueError, -1 for a RecursionError on the way
RECURSIVE IndexOfNode(_, _, _, _)
IndexOfNode(T, kids, i, node) ==
    IF i > Len(kids) THEN None
    ELSE
        LET cmp == IF kids[i].tag = "Point" THEN "ne"
                   ELSE IF kids[i].ref = node THEN "eq"
                   ELSE NodeEq(T, kids[i].ref, node, RecursionLimit)
        IN IF cmp = "eq" THEN i
           ELSE IF cmp = "ne" THEN IndexOfNode(T, kids, i + 1, node)
           ELSE -1

\* the test of _condense_tree
Underfull(T, node) == Len(T.nodes[node].children) < (T.cap \div 2)

\* the while loop of _condense_tree from node: [T, queue]
RECURSIVE CondenseWalk(_, _, _)
CondenseWalk(T, node, insert_queue) ==
    IF node = None \/ T.err THEN [T |-> T, queue |-> insert_queue]
    ELSE
        LET self == T.nodes[node]
            collected(T1) ==
                Flatten([i \in DOMAIN self.children |->
                           IF self.children[i].tag = "Point" THEN <<self.children[i]>>
                           ELSE all_points(T1, self.children[i].ref)])
            \* idx what node.parent.children.remove(node) finds
            Removed(idx) ==
                IF idx = -1 THEN [T |-> [T EXCEPT !.err = TRUE], queue |-> insert_queue]
                ELSE IF idx = None
                     THEN CondenseWalk(T, self.parent, insert_queue \o collected(T))
                     ELSE CondenseWalk(
                              [T EXCEPT !.nodes[self.parent].children = RemoveAt(@, idx)],
                              self.parent, insert_queue \o collected(T))
        IN IF Underfull(T, node) /\ self.parent # None
           THEN Removed(IndexOfNode(T, T.nodes[self.parent].children, 1, node))
           ELSE CondenseWalk(T, self.parent, insert_queue)

\* mutant: the first collected entity is never reinserted
RECURSIVE ReinsertButFirst(_, _, _)
ReinsertButFirst(T, insert_queue, i) ==
    IF i <= 1 THEN T ELSE ReinsertButFirst(insert(T, insert_queue[i]), insert_queue, i - 1)

\* for item in reversed(insert_queue): self.insert(item), from item i down
RECURSIVE Reinsert(_, _, _)
Reinsert(T, insert_queue, i) ==
    IF i = 0 THEN T ELSE Reinsert(insert(T, insert_queue[i]), insert_queue, i - 1)

condense_tree(T, node) ==
    LET \* T1 the index after the reinsertions
        Reinserted(walked, T1) ==
            update_mbr([T1 EXCEPT !.requeued = @ + Len(walked.queue)], T1.root)
        \* walked the index and the insert_queue after the while loop
        Walked(walked) ==
            Reinserted(walked, Reinsert(walked.T, walked.queue, Len(walked.queue)))
    IN Walked(CondenseWalk(T, node, <<>>))

delete(T, point) ==
    LET \* T1 the index after the if leaf is not None block
        Condensed(T1) ==
            LET rootKids == T1.nodes[T1.root].children
                child == rootKids[1].ref
            IN IF T1.err THEN T1
               ELSE IF Len(rootKids) = 1 /\ rootKids[1].tag = "Node"
                    THEN update_mbr([T1 EXCEPT !.root = child, !.nodes[child].parent = None],
                                    child)
                    ELSE T1
        \* leaf what self._find_leaf(self.root, point) gives
        Found(leaf) ==
            LET kids == T.nodes[leaf].children
                present == \E i \in DOMAIN kids : kids[i] = point
                idx == CHOOSE i \in DOMAIN kids :
                           kids[i] = point /\ \A j \in 1..(i - 1) : kids[j] # point
            IN \* children.remove(point) raises ValueError: return
               IF leaf # None /\ ~present THEN T
               ELSE IF leaf = None THEN Condensed(T)
               ELSE Condensed(condense_tree(
                        update_mbr([T EXCEPT !.nodes[leaf].children = RemoveAt(kids, idx)],
                                   leaf),
                        leaf))
    IN IF T.err THEN T ELSE Found(find_leaf(T, T.root, point))

(***************************************************************************)
(* rangeQuery of 05-nested-loop: [res, err], res the list returned         *)
(***************************************************************************)
RECURSIVE rangeQuery(_, _, _)
rangeQuery(T, node, query) ==
    LET kids == T.nodes[node].children
        Hit(c) == intersects(ChildMbr(T, c)[1], PointMbr(query))
        childrenToSearch == SelectSeq(kids, Hit)
        sub == [i \in DOMAIN childrenToSearch |-> rangeQuery(T, childrenToSearch[i].ref, query)]
    IN \* child.mbr.intersects with child.mbr None
       IF \E i \in DOMAIN kids : ChildMbr(T, kids[i]) = <<>> THEN [res |-> <<>>, err |-> TRUE]
       ELSE IF is_leaf(T, node) THEN [res |-> childrenToSearch, err |-> FALSE]
       \* rangeQuery(child, query) with child a Point, which has no children
       ELSE IF \E i \in DOMAIN childrenToSearch : childrenToSearch[i].tag = "Point"
            THEN [res |-> <<>>, err |-> TRUE]
       ELSE [res |-> Flatten([i \in DOMAIN sub |-> sub[i].res]),
             err |-> \E i \in DOMAIN sub : sub[i].err]

(***************************************************************************)
(* Object identities carry no meaning: after a call the objects still      *)
(* reachable from the index are renumbered in preorder from the root, and  *)
(* the rest is garbage.                                                    *)
(***************************************************************************)
RECURSIVE Preorder(_, _)
Preorder(T, n) ==
    LET kids == T.nodes[n].children
    IN <<n>> \o Flatten([i \in DOMAIN kids |->
                           IF kids[i].tag = "Node" THEN Preorder(T, kids[i].ref) ELSE <<>>])

RECURSIVE Dedup(_)
Dedup(s) ==
    IF s = <<>> THEN <<>>
    ELSE LET front == Dedup(SubSeq(s, 1, Len(s) - 1))
         IN IF s[Len(s)] \in Range(front) THEN front ELSE Append(front, s[Len(s)])

Refs(T, n) ==
    ({T.nodes[n].parent}
        \cup {T.nodes[n].children[i].ref : i \in DOMAIN T.nodes[n].children}) \ {None}

RECURSIVE Reachable(_, _)
Reachable(T, order) ==
    LET more == UNION {Refs(T, n) : n \in Range(order)} \ Range(order)
    IN IF more = {} THEN order ELSE Reachable(T, Append(order, SetMin(more)))

Collect(T) ==
    LET order == Reachable(T, Dedup(Preorder(T, T.root)))
        newId(old) == IF old = None THEN None ELSE CHOOSE k \in DOMAIN order : order[k] = old
        moved(n) ==
            [children |-> [i \in DOMAIN n.children |->
                             IF n.children[i].tag = "Node"
                             THEN NodeRef(newId(n.children[i].ref)) ELSE n.children[i]],
             parent |-> newId(n.parent),
             mbr |-> n.mbr]
    IN [T EXCEPT !.nodes = [k \in DOMAIN order |-> moved(T.nodes[order[k]])],
                 !.root = newId(T.root)]

(***************************************************************************)
(* The index as a state machine.                                           *)
(***************************************************************************)
\* a list as a multiset: how often each of its elements occurs
Count(seq, e) == Cardinality({i \in DOMAIN seq : seq[i] = e})
BagOf(seq) == [e \in Range(seq) |-> Count(seq, e)]

Index ==
    [nodes |-> nodes, root |-> root, cap |-> node_capacity, err |-> FALSE, requeued |-> 0,
     loops |-> FALSE]

size(T) == Len(all_points(T, T.root))

EntitiesFor(cap) ==
    IF cap >= 4 THEN {Point(0, 0, 1), Point(1, 1, 1)}
    ELSE {Point(0, 0, 0), Point(1, 1, 0), Point(2, 2, 1)}

MaxPoints(cap) == IF cap >= 4 THEN MaxPointsLarge ELSE MaxPointsSmall

SeqsUpTo(S, n) == UNION {[1..k -> S] : k \in 0..n}

BulkLists(cap) ==
    SeqsUpTo(EntitiesFor(cap), MaxBulkAny)
        \cup {[i \in 1..n |-> IF i % 2 = 1 THEN a ELSE b] :
                n \in 0..MaxBulkLen, a \in EntitiesFor(cap), b \in EntitiesFor(cap)}

\* RTree(node_capacity)
Init ==
    /\ node_capacity \in Capacities
    /\ root = 1
    /\ nodes = <<NewNode(<<>>, None)>>
    /\ raised = FALSE
    /\ last = [op |-> "init", args |-> <<>>, before |-> BagOf(<<>>), requeued |-> 0,
               loops |-> FALSE]

Return(T, op, args) ==
    LET T1 == Collect(T)
    IN /\ nodes' = T1.nodes
       /\ root' = T1.root
       /\ raised' = T1.err
       /\ last' = [op |-> op, args |-> args, before |-> BagOf(all_points(Index, root)),
                   requeued |-> T1.requeued, loops |-> T1.loops]
       /\ UNCHANGED node_capacity

BulkLoad ==
    /\ size(Index) <= MaxBulkPrior
    /\ \E points \in BulkLists(node_capacity) :
           Return(bulk_load(Index, points), "bulk_load", points)

Insert ==
    /\ size(Index) < MaxPoints(node_capacity)
    /\ \E e \in EntitiesFor(node_capacity) :
           Return(insert(Index, e), "insert", <<e>>)

Delete ==
    \E e \in EntitiesFor(node_capacity) :
        Return(delete(Index, e), "delete", <<e>>)

Next == BulkLoad \/ Insert \/ Delete

Spec == Init /\ [][Next]_vars

(***************************************************************************)
(* The index built with a node_capacity below 2 and bulk loaded.  A call   *)
(* that never returns is the last one made.                                *)
(***************************************************************************)
LowCapacities == {-2, -1, 0, 1}

InitLow ==
    /\ node_capacity \in LowCapacities
    /\ root = 1
    /\ nodes = <<NewNode(<<>>, None)>>
    /\ raised = FALSE
    /\ last = [op |-> "init", args |-> <<>>, before |-> BagOf(<<>>), requeued |-> 0,
               loops |-> FALSE]

BulkLoadLow == ~last.loops /\ BulkLoad

NextLow == BulkLoadLow

SpecLow == InitLow /\ [][NextLow]_vars

(***************************************************************************)
(* The index built with node_capacity 4 and bulk loaded with lists of the  *)
(* four radius-0 entities (0,0), (1,0), (10,10), (11,11).                  *)
(***************************************************************************)
ScenarioEntities == {Point(0, 0, 0), Point(1, 0, 0), Point(10, 10, 0), Point(11, 11, 0)}

ScenarioLists == SeqsUpTo(ScenarioEntities, Cardinality(ScenarioEntities))

InitScenario ==
    /\ node_capacity = 4
    /\ root = 1
    /\ nodes = <<NewNode(<<>>, None)>>
    /\ raised = FALSE
    /\ last = [op |-> "init", args |-> <<>>, before |-> BagOf(<<>>), requeued |-> 0,
               loops |-> FALSE]

BulkLoadScenario ==
    /\ size(Index) <= MaxBulkPrior
    /\ \E points \in ScenarioLists : Return(bulk_load(Index, points), "bulk_load", points)

NextScenario == BulkLoadScenario

SpecScenario == InitScenario /\ [][NextScenario]_vars

(***************************************************************************)
(* Views of the current index used by the properties.                      *)
(***************************************************************************)
TreeNodes == Range(Preorder(Index, root))
Points == all_points(Index, root)
SameBag(s, t) == BagOf(s) = BagOf(t)
Occurs(bag, x) == IF x \in DOMAIN bag THEN bag[x] ELSE 0
BagSize(bag) == LET RECURSIVE Sum(_)
                    Sum(S) == IF S = {} THEN 0
                              ELSE LET x == CHOOSE x \in S : TRUE IN bag[x] + Sum(S \ {x})
                IN Sum(DOMAIN bag)
\* bag b holds what bag a holds and one more e
OneMore(b, a, e) ==
    \A x \in DOMAIN a \cup DOMAIN b \cup {e} :
        Occurs(b, x) = Occurs(a, x) + (IF x = e THEN 1 ELSE 0)

NodeChildren(n) == {nodes[n].children[i].ref :
                       i \in {j \in DOMAIN nodes[n].children : nodes[n].children[j].tag = "Node"}}
HoldsEntities(n) == \E i \in DOMAIN nodes[n].children : nodes[n].children[i].tag = "Point"

RECURSIVE Height(_)
Height(n) == 1 + SetMax({0} \cup {Height(c) : c \in NodeChildren(n)})

\* the depths at which the subtree of n, itself at depth d, has nodes without child nodes
RECURSIVE LeafDepths(_, _)
LeafDepths(n, d) ==
    IF NodeChildren(n) = {} THEN {d}
    ELSE UNION {LeafDepths(c, d + 1) : c \in NodeChildren(n)}

(***************************************************************************)
(* C1.  After any sequence of bulk_load, insert and delete calls, every    *)
(* node reachable from the root caches exactly the union of its children's *)
(* boxes (entity boxes in a leaf, cached child boxes in an internal node), *)
(* and a childless node caches no box.                                     *)
(***************************************************************************)
BoxIsExact(n) ==
    LET kids == nodes[n].children
        boxes == {ChildMbr(Index, kids[i])[1] :
                     i \in {j \in DOMAIN kids : ChildMbr(Index, kids[j]) # <<>>}}
    IN IF kids = <<>> THEN nodes[n].mbr = <<>>
       ELSE /\ nodes[n].mbr # <<>>
            /\ boxes # {}
            /\ nodes[n].mbr[1].x1 = SetMin({b.x1 : b \in boxes})
            /\ nodes[n].mbr[1].y1 = SetMin({b.y1 : b \in boxes})
            /\ nodes[n].mbr[1].x2 = SetMax({b.x2 : b \in boxes})
            /\ nodes[n].mbr[1].y2 = SetMax({b.y2 : b \in boxes})

C1_BoxesExact == \A n \in TreeNodes : BoxIsExact(n)

(***************************************************************************)
(* C2.  For every reachable tree and every query box, the range query      *)
(* from the root returns exactly the entities of all_points() whose box    *)
(* intersects the query box, as a multiset, and raises nothing.            *)
(***************************************************************************)
QueryPoints ==
    {Point(0, 0, 1), Point(1, 1, 1), Point(2, 2, 1), Point(1, 1, 2), Point(0, 2, 1),
     Point(1, 1, 0)}

BruteForce(query) ==
    LET Hit(p) == intersects(PointMbr(p), PointMbr(query)) IN SelectSeq(Points, Hit)

C2_RangeQueryExact ==
    \A query \in QueryPoints :
        LET answer == rangeQuery(Index, root, query)
        IN ~answer.err /\ SameBag(answer.res, BruteForce(query))

\* a tree of height two or more in which a query prunes a child of the root
\* and still returns an entity
C2_Witness ==
    /\ ~is_leaf(Index, root)
    /\ \E query \in QueryPoints :
          /\ \E c \in NodeChildren(root) :
                 nodes[c].mbr # <<>> /\ ~intersects(nodes[c].mbr[1], PointMbr(query))
          /\ rangeQuery(Index, root, query).res # <<>>

(***************************************************************************)
(* C3.  From any reachable tree and for any entity e, insert(e) followed   *)
(* by delete(e) leaves all_points() as it was, as a multiset.              *)
(***************************************************************************)
C3_InsertDeleteCancel ==
    \A e \in EntitiesFor(node_capacity) :
        SameBag(all_points(delete(insert(Index, e), e), delete(insert(Index, e), e).root), Points)

(***************************************************************************)
(* C4.  Right after bulk_load(P), for any list P and any prior state,      *)
(* all_points() is P as a multiset, and for empty P the root has no        *)
(* children and no box.                                                    *)
(***************************************************************************)
C4_BulkLoadReplaces ==
    last.op = "bulk_load" =>
        /\ SameBag(Points, last.args)
        /\ last.args = <<>> => (nodes[root].children = <<>> /\ nodes[root].mbr = <<>>)

(***************************************************************************)
(* C5.  insert(e) raises nothing, all_points() afterwards is its previous  *)
(* value plus exactly one e, and size() has grown by one.                  *)
(***************************************************************************)
C5_InsertAddsOne ==
    last.op = "insert" =>
        /\ ~raised
        /\ OneMore(BagOf(Points), last.before, last.args[1])
        /\ size(Index) = BagSize(last.before) + 1

\* an insert that left a tree of height three or more: leaf and root have split
C5_Witness == last.op = "insert" /\ ~raised /\ Height(root) >= 3

(***************************************************************************)
(* C6.  delete(e) lowers the multiplicity of e in all_points() by at most  *)
(* one and leaves every other multiplicity unchanged; size() is the        *)
(* previous size or one less.                                              *)
(***************************************************************************)
C6_DeleteAtMostOne ==
    last.op = "delete" =>
        \/ BagOf(Points) = last.before /\ size(Index) = BagSize(last.before)
        \/ OneMore(last.before, BagOf(Points), last.args[1])
               /\ size(Index) = BagSize(last.before) - 1

\* a delete that removed one of several occurrences of its entity, detached an
\* underfull node and reinserted what that node held
C6_Witness ==
    /\ last.op = "delete"
    /\ last.requeued > 0
    /\ Occurs(last.before, last.args[1]) >= 2
    /\ Occurs(BagOf(Points), last.args[1]) = Occurs(last.before, last.args[1]) - 1

(***************************************************************************)
(* C7.  delete(e) of an entity equal to no indexed entity raises nothing   *)
(* and changes nothing: the root, every node's children, parent and box.   *)
(***************************************************************************)
C7_DeleteAbsentNoOp ==
    [][(last'.op = "delete" /\ \A i \in DOMAIN Points : Points[i] # last'.args[1]) =>
          (~raised' /\ root' = root /\ nodes' = nodes)]_vars

(***************************************************************************)
(* C8.  After every completed call, every node, the root included, has at  *)
(* most node_capacity children.                                            *)
(***************************************************************************)
C8_AtMostCapacity == \A n \in TreeNodes : Len(nodes[n].children) <= node_capacity

\* an insert left a tree of height three with a full node: splits have
\* climbed to the root
C8_Witness ==
    /\ last.op = "insert"
    /\ Height(root) >= 3
    /\ \E n \in TreeNodes : Len(nodes[n].children) = node_capacity

(***************************************************************************)
(* C9.  After every completed call, every non-root node has at least       *)
(* ceil(node_capacity / 2) children.                                       *)
(***************************************************************************)
C9_AtLeastHalf ==
    \A n \in TreeNodes \ {root} : Len(nodes[n].children) >= CeilDiv(node_capacity, 2)

(***************************************************************************)
(* C10.  After every completed call, all leaves are at the same depth and  *)
(* no node holds both entities and child nodes.                            *)
(***************************************************************************)
C10_UniformDepth ==
    /\ Cardinality(LeafDepths(root, 0)) = 1
    /\ \A n \in TreeNodes : ~(HoldsEntities(n) /\ NodeChildren(n) # {})

\* a delete left a tree of height three or more
C10_Witness == last.op = "delete" /\ Height(root) >= 3

(***************************************************************************)
(* C11.  bulk_load on an index whose node_capacity is below 2 ends, for    *)
(* every entity list, with an exception: it does not return normally (with *)
(* or without a tree built) and it does not run forever.                   *)
(***************************************************************************)
C11_LowCapacityFails == last.op = "bulk_load" => (raised /\ ~last.loops)

(***************************************************************************)
(* C12.  With capacity 4, bulk_load of the four radius-0 entities (0,0),   *)
(* (1,0), (10,10), (11,11), in any order, yields a root that is a single   *)
(* leaf with box (0,0,11,11).  A range query with box (0,0,2,2) on that    *)
(* tree returns no entity, because (0,0,0) and (1,0,0) lie on the edge of  *)
(* the query box, and a query with box (-2,-2,2,2) returns exactly those   *)
(* two.                                                                    *)
(***************************************************************************)
\* bulk_load has just been given the four entities, each once
FourLoaded ==
    /\ last.op = "bulk_load"
    /\ BagOf(last.args) = [e \in ScenarioEntities |-> 1]

SingleLeafRoot ==
    /\ ~raised
    /\ nodes[root].parent = None
    /\ BagOf(nodes[root].children) = [e \in ScenarioEntities |-> 1]
    /\ nodes[root].mbr = <<MinimalBoundingRectangle(0, 0, 11, 11)>>

\* the query entity whose box is (0,0,2,2), and the one whose box is (-2,-2,2,2)
QueryBox0022 == Point(1, 1, 1)
QueryBoxWide == Point(0, 0, 2)

C12_ScenarioEdgeExcluded ==
    FourLoaded =>
        /\ SingleLeafRoot
        /\ rangeQuery(Index, root, QueryBox0022) = [res |-> <<>>, err |-> FALSE]
        /\ ~rangeQuery(Index, root, QueryBoxWide).err
        /\ BagOf(rangeQuery(Index, root, QueryBoxWide).res)
               = [e \in {Point(0, 0, 0), Point(1, 0, 0)} |-> 1]

C12_Witness == FourLoaded /\ Len(nodes[root].children) = 4 /\ is_leaf(Index, root)

\* the scenario as the specification states it
C12_ScenarioAsStated ==
    FourLoaded =>
        /\ SingleLeafRoot
        /\ BagOf(rangeQuery(Index, root, QueryBox0022).res)
               = [e \in {Point(0, 0, 0), Point(1, 0, 0)} |-> 1]

(***************************************************************************)
(* C13.  Right after bulk_load of a list of N > 0 entities with capacity   *)
(* C >= 2, every leaf holds between 1 and C entities, and when N <= C the  *)
(* tree is one leaf, the root, holding the N entities.                     *)
(***************************************************************************)
C13_BulkLeafSizes ==
    (last.op = "bulk_load" /\ last.args # <<>>) =>
        /\ ~raised
        /\ \A n \in TreeNodes :
               NodeChildren(n) = {} => Len(nodes[n].children) \in 1..node_capacity
        /\ Len(last.args) <= node_capacity =>
               /\ TreeNodes = {root}
               /\ BagOf(nodes[root].children) = BagOf(last.args)

\* a bulk load that built a tree of height three with a leaf that is not full
C13_Witness ==
    /\ last.op = "bulk_load"
    /\ Height(root) >= 3
    /\ \E n \in TreeNodes :
           NodeChildren(n) = {} /\ Len(nodes[n].children) < node_capacity

(***************************************************************************)
(* C14.  At every internal node on the descent of _choose_leaf, if some    *)
(* children have a box that contains the entity's extent, the child chosen *)
(* is the first of them in the node's child order; if none has, it is the  *)
(* child with the smallest enlargement, the first one among equals.        *)
(***************************************************************************)
\* the internal nodes the descent for point visits from current_node on
RECURSIVE DescentNodes(_, _)
DescentNodes(current_node, point) ==
    LET kids == nodes[current_node].children
        chosen == ScanChildren(Index, kids, 1, point, None, Inf)[1]
    IN IF is_leaf(Index, current_node) \/ Len(kids) = 0 THEN <<>>
       ELSE IF chosen = None \/ kids[chosen].tag = "Point" THEN <<current_node>>
       ELSE <<current_node>> \o DescentNodes(kids[chosen].ref, point)

HasBox(c) == c.tag = "Node" /\ nodes[c.ref].mbr # <<>>
Contains(c, point) == HasBox(c) /\ includes(nodes[c.ref].mbr[1], point)
Enlargement(c, point) ==
    enlarged_area_with_point(nodes[c.ref].mbr[1], point) - area(nodes[c.ref].mbr[1])

\* the index of the child the claim names among the children kids, None if
\* no child has a box
ClaimedChoice(kids, point) ==
    LET containing == {i \in DOMAIN kids : Contains(kids[i], point)}
        boxed == {i \in DOMAIN kids : HasBox(kids[i])}
        smallest == {i \in boxed : \A j \in boxed :
                        Enlargement(kids[i], point) <= Enlargement(kids[j], point)}
    IN IF containing # {} THEN SetMin(containing)
       ELSE IF boxed # {} THEN SetMin(smallest)
       ELSE None

C14_FirstContainingWins ==
    \A point \in EntitiesFor(node_capacity) :
        \A k \in DOMAIN DescentNodes(root, point) :
            LET kids == nodes[DescentNodes(root, point)[k]].children
            IN ScanChildren(Index, kids, 1, point, None, Inf)[1] = ClaimedChoice(kids, point)

(***************************************************************************)
(* C15.  After every completed call the root's parent is None, and every   *)
(* child node c of every node n reachable from the root has n as parent.   *)
(***************************************************************************)
C15_ParentsAgree ==
    /\ nodes[root].parent = None
    /\ \A n \in TreeNodes : \A c \in NodeChildren(n) : nodes[c].parent = n

\* a delete that queued entities for reinsertion and left a tree of height
\* three or more: nodes were detached and others split and re-parented
C15_Witness == last.op = "delete" /\ last.requeued > 0 /\ Height(root) >= 3

(***************************************************************************)
(* C16.  After every completed call, a root that is an internal node has   *)
(* at least two children.                                                  *)
(***************************************************************************)
C16_InternalRootHasTwo ==
    NodeChildren(root) # {} => Len(nodes[root].children) >= 2

====
